---- MODULE Spec2Model ----
(***************************************************************************)
(* Model of the authentication / rate-limiting core of the reader site:    *)
(*   - checkRateLimit and the comments POST handler (comments function),   *)
(*   - verifyJWT (comments function),                                      *)
(*   - verifyAdminToken and the request handler of the setup function,     *)
(*   - loadTelegramScript of the comments page.                            *)
(***************************************************************************)
EXTENDS Integers, Sequences, FiniteSets, TLC

(***************************************************************************)
(* Program constants and bounds                                            *)
(***************************************************************************)
WINDOW_MS == 60000
MAX_COUNT == 5

MaxPrincipal == 2
MaxReq == 2
MaxWindows == 1
HistLen == 11
ShortSpan == 1000

Principals == 1..MaxPrincipal
ReqIds == 1..MaxReq

\* The instants at which the clock is observed: each multiple of the window
\* length and the millisecond after it.
Instants ==
  { k * WINDOW_MS + j : k \in 0..MaxWindows, j \in 0..1 } \cap Nat

\* The instants of the boundary bursts: around each multiple of the window
\* length, far enough for a third window to open.
BurstInstants ==
  { k * WINDOW_MS + j : k \in 0..(MaxWindows + 1), j \in 0..2 } \cap Nat

\* The instants of the concurrent requests: one in each window.
WindowInstants == { k * (WINDOW_MS + 1) : k \in 0..MaxWindows }

VARIABLES
  now,           \* Date.now(), in ms
  rateLimitMap,  \* Map<number, {count, resetAt}>: a function on its key set
  last,          \* the latest checkRateLimit call: principal, time, result,
                 \* and the entry the call found
  windowCalls,   \* per principal: calls made since (and including) the call
                 \* that created the current entry, capped at MAX_COUNT + 1
  hist,          \* per principal: the times of the latest allowed calls
  jwtSecret,     \* Deno.env.get("ADMIN_JWT_SECRET")
  req,           \* per request slot: the request being handled and, once
                 \* answered, its response
  comments,      \* the telegram_ids that have a row in table comments
  setup,         \* the setup function: table admin_users and the latest
                 \* request it handled
  tg             \* the browser page: the Telegram widget script loader

vars == <<now, rateLimitMap, last, windowCalls, hist, jwtSecret, req, comments,
          setup, tg>>
limiterVars == <<rateLimitMap, last, windowCalls, hist>>
handlerVars == <<jwtSecret, req, comments>>
otherVars == <<setup, tg>>

(***************************************************************************)
(* Rate limiter                                                            *)
(***************************************************************************)
Absent == [count |-> 0, resetAt |-> 0]
NoCall == [p |-> 0, t |-> 0, ok |-> FALSE, prev |-> Absent]

MapGet(m, k) == IF k \in DOMAIN m THEN m[k] ELSE Absent
MapSet(m, k, v) == [q \in DOMAIN m \cup {k} |-> IF q = k THEN v ELSE m[q]]

\* Variants of checkRateLimit with one slip each.
\* The limit compared with > instead of >=.
checkRateLimit_gt(m, telegramId, t) ==
  IF telegramId \notin DOMAIN m \/ t > m[telegramId].resetAt
    THEN [ok  |-> TRUE,
          map |-> MapSet(m, telegramId, [count |-> 1, resetAt |-> t + WINDOW_MS])]
  ELSE IF m[telegramId].count > MAX_COUNT
    THEN [ok |-> FALSE, map |-> m]
  ELSE [ok  |-> TRUE,
        map |-> [m EXCEPT ![telegramId].count = @ + 1]]

\* The expiry of the window never looked at.
checkRateLimit_noexpiry(m, telegramId, t) ==
  IF telegramId \notin DOMAIN m
    THEN [ok  |-> TRUE,
          map |-> MapSet(m, telegramId, [count |-> 1, resetAt |-> t + WINDOW_MS])]
  ELSE IF m[telegramId].count >= MAX_COUNT
    THEN [ok |-> FALSE, map |-> m]
  ELSE [ok  |-> TRUE,
        map |-> [m EXCEPT ![telegramId].count = @ + 1]]

\* A denied call pushes the end of the window forward.
checkRateLimit_extend(m, telegramId, t) ==
  IF telegramId \notin DOMAIN m \/ t > m[telegramId].resetAt
    THEN [ok  |-> TRUE,
          map |-> MapSet(m, telegramId, [count |-> 1, resetAt |-> t + WINDOW_MS])]
  ELSE IF m[telegramId].count >= MAX_COUNT
    THEN [ok |-> FALSE,
          map |-> [m EXCEPT ![telegramId].resetAt = t + WINDOW_MS]]
  ELSE [ok  |-> TRUE,
        map |-> [m EXCEPT ![telegramId].count = @ + 1]]

\* The window replaced already at now = resetAt.
checkRateLimit_geq(m, telegramId, t) ==
  IF telegramId \notin DOMAIN m \/ t >= m[telegramId].resetAt
    THEN [ok  |-> TRUE,
          map |-> MapSet(m, telegramId, [count |-> 1, resetAt |-> t + WINDOW_MS])]
  ELSE IF m[telegramId].count >= MAX_COUNT
    THEN [ok |-> FALSE, map |-> m]
  ELSE [ok  |-> TRUE,
        map |-> [m EXCEPT ![telegramId].count = @ + 1]]

\* A window of no length.
checkRateLimit_noWindow(m, telegramId, t) ==
  IF telegramId \notin DOMAIN m \/ t > m[telegramId].resetAt
    THEN [ok  |-> TRUE,
          map |-> MapSet(m, telegramId, [count |-> 1, resetAt |-> t])]
  ELSE IF m[telegramId].count >= MAX_COUNT
    THEN [ok |-> FALSE, map |-> m]
  ELSE [ok  |-> TRUE,
        map |-> MapSet(m, telegramId,
                       [count |-> m[telegramId].count + 1,
                        resetAt |-> m[telegramId].resetAt])]

\* One entry shared by every principal.
checkRateLimit_oneKey(m, telegramId, t) ==
  IF 1 \notin DOMAIN m \/ t > m[1].resetAt
    THEN [ok  |-> TRUE,
          map |-> MapSet(m, 1, [count |-> 1, resetAt |-> t + WINDOW_MS])]
  ELSE IF m[1].count >= MAX_COUNT
    THEN [ok |-> FALSE, map |-> m]
  ELSE [ok  |-> TRUE,
        map |-> MapSet(m, 1, [count |-> m[1].count + 1, resetAt |-> m[1].resetAt])]

\* The increment of an allowed call is lost.
checkRateLimit_lost(m, telegramId, t) ==
  IF telegramId \notin DOMAIN m \/ t > m[telegramId].resetAt
    THEN [ok  |-> TRUE,
          map |-> MapSet(m, telegramId, [count |-> 1, resetAt |-> t + WINDOW_MS])]
  ELSE IF m[telegramId].count >= MAX_COUNT
    THEN [ok |-> FALSE, map |-> m]
  ELSE [ok |-> TRUE, map |-> m]

\* checkRateLimit(telegramId) evaluated at Date.now() = t on map m:
\* the returned boolean and the map it leaves.
checkRateLimit(m, telegramId, t) ==
  IF telegramId \notin DOMAIN m \/ t > m[telegramId].resetAt
    THEN [ok  |-> TRUE,
          map |-> MapSet(m, telegramId, [count |-> 1, resetAt |-> t + WINDOW_MS])]
  ELSE IF m[telegramId].count >= MAX_COUNT
    THEN [ok |-> FALSE, map |-> m]
  ELSE [ok  |-> TRUE,
        map |-> [m EXCEPT ![telegramId].count = @ + 1]]

Min(a, b) == IF a < b THEN a ELSE b
Push(s, x) == IF Len(s) < HistLen THEN Append(s, x) ELSE Append(Tail(s), x)

\* Bookkeeping of one checkRateLimit call for principal p with result r.
Observe(p, r) ==
  /\ last' = [p |-> p, t |-> now, ok |-> r.ok, prev |-> MapGet(rateLimitMap, p)]
  /\ windowCalls' =
       [windowCalls EXCEPT ![p] =
          IF MapGet(r.map, p).resetAt # MapGet(rateLimitMap, p).resetAt
               \/ p \notin DOMAIN rateLimitMap
            THEN 1
            ELSE Min(@ + 1, MAX_COUNT + 1)]

\* One call of checkRateLimit(p).
Call(p) ==
  LET r == checkRateLimit(rateLimitMap, p, now) IN
    /\ rateLimitMap' = r.map
    /\ Observe(p, r)
    /\ UNCHANGED <<now, hist, handlerVars, otherVars>>

\* One call of checkRateLimit(p), the times of the allowed calls recorded.
CallRecorded(p) ==
  LET r == checkRateLimit(rateLimitMap, p, now) IN
    /\ rateLimitMap' = r.map
    /\ Observe(p, r)
    /\ hist' = [hist EXCEPT ![p] = IF r.ok THEN Push(@, now) ELSE @]
    /\ UNCHANGED <<now, handlerVars, otherVars>>

\* Time passes.
Tick ==
  /\ \E t \in Instants : t > now /\ now' = t
  /\ UNCHANGED <<limiterVars, handlerVars, otherVars>>

\* Time passes, on the grid of the boundary bursts.
TickBurst ==
  /\ \E t \in BurstInstants : t > now /\ now' = t
  /\ UNCHANGED <<limiterVars, handlerVars, otherVars>>

\* Time passes, from one window to a later one.
TickWindow ==
  /\ \E t \in WindowInstants : t > now /\ now' = t
  /\ UNCHANGED <<limiterVars, handlerVars, otherVars>>

(***************************************************************************)
(* Tokens                                                                  *)
(*                                                                         *)
(* A token is a string, modelled as a sequence of pieces: the separator    *)
(* "." or a non-empty run of other characters.  A run is the base64url     *)
(* text of a JOSE header, of a claims object or of an HMAC-SHA-256 tag, or *)
(* text that is not base64 at all.  HMAC-SHA-256 is modelled as an ideal   *)
(* MAC: the tag determines the key and the signed text.                    *)
(***************************************************************************)
Unset == "<unset>"        \* Deno.env.get(..) === undefined
NoExp == -1               \* the claims object has no exp
NoRole == "<none>"        \* the claims object has no role

Piece(kind, alg, key, sub, exp, role) ==
  [kind |-> kind, alg |-> alg, key |-> key, sub |-> sub, exp |-> exp, role |-> role]

Dot == Piece("dot", "", "", 0, NoExp, NoRole)
Junk == Piece("junk", "", "", 0, NoExp, NoRole)
Hdr(alg) == Piece("hdr", alg, "", 0, NoExp, NoRole)
Pay(sub, exp, role) == Piece("pay", "", "", sub, exp, role)
\* base64url of HMAC-SHA-256(key, Hdr(alg) "." Pay(sub, exp, role))
Sig(key, alg, sub, exp, role) == Piece("sig", alg, key, sub, exp, role)

\* encode(claims, key) with a header declaring alg.
Encode(alg, key, sub, exp, role) ==
  <<Hdr(alg), Dot, Pay(sub, exp, role), Dot, Sig(key, alg, sub, exp, role)>>

\* String.prototype.split("."): the runs between the separators.
RECURSIVE Split(_)
Split(str) ==
  IF \A i \in 1..Len(str) : str[i] # Dot
    THEN <<str>>
    ELSE LET i == CHOOSE k \in 1..Len(str) :
                    str[k] = Dot /\ \A j \in 1..(k - 1) : str[j] # Dot
         IN <<SubSeq(str, 1, i - 1)>> \o Split(SubSeq(str, i + 1, Len(str)))

\* const [a, b, c] = parts: element i, or undefined past the end.  undefined
\* and "" are both falsy and are both written << >>.
At(parts, i) == IF i <= Len(parts) THEN parts[i] ELSE << >>

\* base64UrlDecode(str): atob throws on text that is not base64; otherwise
\* the bytes the text encodes.
base64UrlDecode(str) ==
  IF \E i \in 1..Len(str) : str[i].kind = "junk"
    THEN [threw |-> TRUE, bytes |-> Junk]
  ELSE IF Len(str) = 1
    THEN [threw |-> FALSE, bytes |-> [str[1] EXCEPT !.kind = "bytes:" \o @]]
  ELSE [threw |-> FALSE, bytes |-> Piece("bytes:other", "", "", 0, NoExp, NoRole)]

\* The HMAC-SHA-256 tag of headerB64 "." payloadB64 under secret.
Hmac(secret, headerB64, payloadB64) ==
  IF Len(headerB64) = 1 /\ headerB64[1].kind = "hdr"
     /\ Len(payloadB64) = 1 /\ payloadB64[1].kind = "pay"
    THEN Piece("bytes:sig", headerB64[1].alg, secret,
               payloadB64[1].sub, payloadB64[1].exp, payloadB64[1].role)
    ELSE Piece("bytes:tag", "", secret, 0, NoExp, NoRole)

\* crypto.subtle.importKey("raw", encode(secret), HMAC): a key of length
\* zero is refused.
importKeyThrows(secret) == secret = "" \/ secret = Unset

\* crypto.subtle.verify("HMAC", key, signature, data)
cryptoVerify(secret, signature, headerB64, payloadB64) ==
  signature = Hmac(secret, headerB64, payloadB64)

\* JSON.parse(atob(payloadB64...)): the claims, or a throw when the text is
\* not the base64 of a JSON value.
Null == [ok |-> FALSE, telegram_id |-> 0, exp |-> NoExp, role |-> NoRole]
ParsePayload(payloadB64) ==
  IF Len(payloadB64) = 1 /\ payloadB64[1].kind = "pay"
    THEN [threw |-> FALSE,
          payload |-> [ok |-> TRUE, telegram_id |-> payloadB64[1].sub,
                       exp |-> payloadB64[1].exp, role |-> payloadB64[1].role]]
  ELSE IF Len(payloadB64) = 1 /\ payloadB64[1].kind = "hdr"
    THEN [threw |-> FALSE,
          payload |-> [ok |-> TRUE, telegram_id |-> 0, exp |-> NoExp, role |-> NoRole]]
  ELSE [threw |-> TRUE, payload |-> Null]

\* payload.exp && payload.exp < Math.floor(Date.now() / 1000)
ExpCheckFails(exp, t) == exp # NoExp /\ exp # 0 /\ exp < t \div 1000

\* verifyJWT with the result of crypto.subtle.verify never looked at.
verifyJWT_noSignature(token, secret, t) ==
  LET parts == Split(token)
      headerB64 == At(parts, 1)
      payloadB64 == At(parts, 2)
      signatureB64 == At(parts, 3)
  IN IF headerB64 = << >> \/ payloadB64 = << >> \/ signatureB64 = << >> THEN Null
     ELSE IF importKeyThrows(secret) THEN Null
     ELSE IF base64UrlDecode(signatureB64).threw THEN Null
     ELSE IF ParsePayload(payloadB64).threw THEN Null
     ELSE IF ExpCheckFails(ParsePayload(payloadB64).payload.exp, t) THEN Null
     ELSE ParsePayload(payloadB64).payload

\* verifyJWT(token, secret) completing at Date.now() = t: the payload, or
\* Null for null.
verifyJWT(token, secret, t) ==
  LET parts == Split(token)
      headerB64 == At(parts, 1)
      payloadB64 == At(parts, 2)
      signatureB64 == At(parts, 3)
  IN IF headerB64 = << >> \/ payloadB64 = << >> \/ signatureB64 = << >> THEN Null
     ELSE IF importKeyThrows(secret) THEN Null
     ELSE IF base64UrlDecode(signatureB64).threw THEN Null
     ELSE IF ~cryptoVerify(secret, base64UrlDecode(signatureB64).bytes,
                           headerB64, payloadB64) THEN Null
     ELSE IF ParsePayload(payloadB64).threw THEN Null
     ELSE IF ExpCheckFails(ParsePayload(payloadB64).payload.exp, t) THEN Null
     ELSE ParsePayload(payloadB64).payload

\* An Authorization header: absent, or a scheme word and the text after it.
NoHeader == [scheme |-> "<null>", rest |-> << >>]
Bearer(token) == [scheme |-> "Bearer ", rest |-> token]
Basic(token) == [scheme |-> "Basic ", rest |-> token]

\* verifyAdminToken with the role never looked at.
verifyAdminToken_anyRole(authHeader, secret, t) ==
  IF authHeader = NoHeader \/ authHeader.scheme # "Bearer " THEN FALSE
  ELSE IF secret = Unset \/ secret = "" THEN FALSE
  ELSE
    LET parts == Split(authHeader.rest)
        headerB64 == At(parts, 1)
        payloadB64 == At(parts, 2)
        signatureB64 == At(parts, 3)
    IN IF headerB64 = << >> \/ payloadB64 = << >> \/ signatureB64 = << >> THEN FALSE
       ELSE IF importKeyThrows(secret) THEN FALSE
       ELSE IF base64UrlDecode(signatureB64).threw THEN FALSE
       ELSE IF ~cryptoVerify(secret, base64UrlDecode(signatureB64).bytes,
                             headerB64, payloadB64) THEN FALSE
       ELSE IF ParsePayload(payloadB64).threw THEN FALSE
       ELSE IF ExpCheckFails(ParsePayload(payloadB64).payload.exp, t) THEN FALSE
       ELSE TRUE

\* verifyAdminToken(authHeader) with ADMIN_JWT_SECRET = secret, completing at
\* Date.now() = t.
verifyAdminToken(authHeader, secret, t) ==
  IF authHeader = NoHeader \/ authHeader.scheme # "Bearer " THEN FALSE
  ELSE IF secret = Unset \/ secret = "" THEN FALSE
  ELSE
    LET parts == Split(authHeader.rest)
        headerB64 == At(parts, 1)
        payloadB64 == At(parts, 2)
        signatureB64 == At(parts, 3)
    IN IF headerB64 = << >> \/ payloadB64 = << >> \/ signatureB64 = << >> THEN FALSE
       ELSE IF importKeyThrows(secret) THEN FALSE
       ELSE IF base64UrlDecode(signatureB64).threw THEN FALSE
       ELSE IF ~cryptoVerify(secret, base64UrlDecode(signatureB64).bytes,
                             headerB64, payloadB64) THEN FALSE
       ELSE IF ParsePayload(payloadB64).threw THEN FALSE
       ELSE IF ExpCheckFails(ParsePayload(payloadB64).payload.exp, t) THEN FALSE
       ELSE ParsePayload(payloadB64).payload.role = "admin"

(***************************************************************************)
(* The comments function: POST handler                                     *)
(* (the database is configured and its statements succeed)                 *)
(***************************************************************************)
\* win: resetAt of the rate-limit window that admitted the request (0: none).
Idle ==
  [pc |-> "idle", kind |-> "", tok |-> << >>, user |-> 0, win |-> 0,
   status |-> 0, error |-> "", isAdmin |-> FALSE]

Free(r) == req[r].pc \in {"idle", "done"}

\* The response of a handler.
Respond(r, status, error) ==
  req' = [req EXCEPT ![r].pc = "done", ![r].status = status, ![r].error = error]

\* extractCookie(cookieHeader, name): the value of the first cookie called
\* name, or null.  A cookie header is a sequence of name/value pairs.
extractCookie(cookieHeader, name) ==
  IF \E i \in 1..Len(cookieHeader) : cookieHeader[i].name = name
    THEN LET i == CHOOSE k \in 1..Len(cookieHeader) :
                    /\ cookieHeader[k].name = name
                    /\ \A j \in 1..(k - 1) : cookieHeader[j].name # name
         IN [found |-> TRUE, value |-> cookieHeader[i].value]
    ELSE [found |-> FALSE, value |-> << >>]

\* The guard with the test of the secret left out.
MissingCredentials_tokenOnly(authToken, secret) ==
  \/ ~authToken.found
  \/ authToken.value = << >>

\* !authToken || !jwtSecret
MissingCredentials(authToken, secret) ==
  \/ ~authToken.found
  \/ authToken.value = << >>
  \/ secret = Unset
  \/ secret = ""

\* POST arrives: the cookie is read; without a token or a secret the answer
\* is 401, otherwise verifyJWT is started.
Post(r, cookieHeader) ==
  LET authToken == extractCookie(cookieHeader, "tg_auth") IN
    /\ Free(r)
    /\ IF MissingCredentials(authToken, jwtSecret)
         THEN req' = [req EXCEPT ![r] =
                [Idle EXCEPT !.pc = "done", !.kind = "comments",
                             !.tok = authToken.value,
                             !.status = 401, !.error = "Unauthorized"]]
         ELSE req' = [req EXCEPT ![r] =
                [Idle EXCEPT !.pc = "verifying", !.kind = "comments",
                             !.tok = authToken.value]]
    /\ UNCHANGED <<now, limiterVars, jwtSecret, comments, otherVars>>

\* The handler goes on to the body without the outcome of verifyJWT or of the
\* rate limiter.
VerifyDone_unchecked(r) ==
  /\ req[r].pc = "verifying"
  /\ req' = [req EXCEPT ![r].pc = "readingBody"]
  /\ UNCHANGED <<now, limiterVars, jwtSecret, comments, otherVars>>

\* verifyJWT completes; on success the rate limiter is consulted in the same
\* turn, and the body is then awaited.
VerifyDone(r) ==
  LET user == verifyJWT(req[r].tok, jwtSecret, now)
      rl == checkRateLimit(rateLimitMap, user.telegram_id, now)
  IN
    /\ req[r].pc = "verifying"
    /\ IF ~user.ok
         THEN /\ Respond(r, 401, "Invalid or expired token")
              /\ UNCHANGED <<rateLimitMap, last, windowCalls>>
         ELSE /\ rateLimitMap' = rl.map
              /\ Observe(user.telegram_id, rl)
              /\ IF ~rl.ok
                   THEN req' = [req EXCEPT ![r].pc = "done",
                                           ![r].user = user.telegram_id,
                                           ![r].status = 429,
                                           ![r].error = "Rate limit exceeded. Please wait before posting again."]
                   ELSE req' = [req EXCEPT ![r].pc = "readingBody",
                                           ![r].user = user.telegram_id,
                                           ![r].win = rl.map[user.telegram_id].resetAt]
    /\ UNCHANGED <<now, hist, jwtSecret, comments, otherVars>>

\* The request bodies: whether the text is JSON, whether seriesId is truthy,
\* and the content field.
NotAString == "<number>"
Contents == {NotAString, "", " ", "hi", "<"}
Bodies == [json : BOOLEAN, seriesId : BOOLEAN, content : Contents]

\* sanitizeContent(content): the markup characters escaped, then trimmed.
sanitizeContent(content) ==
  CASE content = "<" -> "&lt;"
    [] content = " " -> ""
    [] OTHER -> content

\* A request answered 400 gives its quota back.
BodyRead_refund(r, body) ==
  LET p == req[r].user
      bad == \/ ~body.seriesId \/ body.content = "" \/ body.content = NotAString
             \/ sanitizeContent(body.content) = ""
  IN
    /\ req[r].pc = "readingBody"
    /\ IF ~body.json
         THEN Respond(r, 500, "Unexpected token")
       ELSE IF bad
         THEN Respond(r, 400, "seriesId and content are required")
       ELSE req' = [req EXCEPT ![r].pc = "inserting"]
    /\ IF body.json /\ bad /\ p \in DOMAIN rateLimitMap /\ rateLimitMap[p].count > 1
         THEN rateLimitMap' = [rateLimitMap EXCEPT ![p].count = @ - 1]
         ELSE rateLimitMap' = rateLimitMap
    /\ UNCHANGED <<now, last, windowCalls, hist, jwtSecret, comments, otherVars>>

\* req.json() completes: the body is validated and the INSERT is started.
BodyRead(r, body) ==
  /\ req[r].pc = "readingBody"
  /\ IF ~body.json
       THEN Respond(r, 500, "Unexpected token")
     ELSE IF ~body.seriesId \/ body.content = "" \/ body.content = NotAString
       THEN Respond(r, 400, "seriesId and content are required")
     ELSE IF sanitizeContent(body.content) = ""
       THEN Respond(r, 400, "Comment cannot be empty")
     ELSE req' = [req EXCEPT ![r].pc = "inserting"]
  /\ UNCHANGED <<now, limiterVars, jwtSecret, comments, otherVars>>

\* The INSERT completes.
InsertDone(r) ==
  /\ req[r].pc = "inserting"
  /\ comments' = comments \cup {req[r].user}
  /\ Respond(r, 201, "")
  /\ UNCHANGED <<now, limiterVars, jwtSecret, otherVars>>

(***************************************************************************)
(* The setup function: the admin check                                     *)
(***************************************************************************)
\* await verifyAdminToken(req.headers.get("Authorization")) completes.
AdminVerify(r, authHeader) ==
  /\ Free(r)
  /\ req' = [req EXCEPT ![r] =
       [Idle EXCEPT !.pc = "done", !.kind = authHeader.scheme,
                    !.tok = authHeader.rest,
                    !.isAdmin = verifyAdminToken(authHeader, jwtSecret, now)]]
  /\ UNCHANGED <<now, limiterVars, jwtSecret, comments, otherVars>>

(***************************************************************************)
(* Inputs                                                                  *)
(***************************************************************************)
Algs == {"HS256", "none", "HS512"}
Roles == {NoRole, "user", "admin"}
FarExp == (MaxWindows + 1) * WINDOW_MS
Exps == {NoExp, 0, 1, FarExp}
EnvSecrets == {Unset, "", "k1", "k2"}

Good == Encode("HS256", "k1", 1, FarExp, "user")

\* Well-formed signed tokens.
SignedTokens ==
  {Encode("HS256", "k1", 1, e, "user") : e \in Exps}
    \cup {Encode("HS256", "k1", 1, e, "admin") : e \in {0, 1, FarExp}}
    \cup {Encode(a, "k1", 1, FarExp, ro) : a \in Algs, ro \in {NoRole, "admin"}}
    \cup {Encode("HS256", "k2", 1, FarExp, ro) : ro \in {"user", "admin"}}

\* Tokens a client made without the key, or damaged.
OtherTokens ==
  { << >>,
    <<Junk>>,
    SubSeq(Good, 1, 3),
    SubSeq(Good, 1, 4),
    Tail(Good),
    <<Good[1], Dot, Dot, Good[5]>>,
    Good \o <<Dot, Junk>>,
    Encode("HS256", "k1", 1, FarExp, "admin") \o <<Dot, Junk>>,
    <<Good[1], Dot, Good[3], Dot, Junk>>,
    <<Good[1], Dot, Junk, Dot, Good[5]>>,
    <<Good[1], Dot, Pay(2, FarExp, "admin"), Dot, Good[5]>>,
    <<Hdr("none"), Dot, Pay(1, FarExp, "admin"), Dot>>,
    <<Hdr("none"), Dot, Pay(1, FarExp, "admin"), Dot, Junk>>,
    <<Hdr("HS512"), Dot, Pay(1, FarExp, "admin"), Dot, Good[5]>> }

Tokens == SignedTokens \cup OtherTokens

Cookie(name, value) == [name |-> name, value |-> value]
CookieHeaders ==
  { << >>, <<Cookie("theme", <<Junk>>)>> }
    \cup { <<Cookie("tg_auth", t)>> : t \in Tokens }
    \cup { <<Cookie("theme", <<Junk>>), Cookie("tg_auth", Good)>> }

AuthHeaders ==
  {NoHeader, Basic(Good)} \cup {Bearer(t) : t \in Tokens}

(***************************************************************************)
(* The setup function: the handler                                         *)
(* (one request at a time; the database statements succeed unless table    *)
(* admin_users is missing)                                                 *)
(***************************************************************************)
SetupActions == {"init_tables", "create_admin", "reset_password", "drop_all"}
RawEmails == {"", " A@x ", "b@x"}
Passwords == {"", "pw", "pw2"}
SetupSecrets == {Unset, "", "k1"}
SetupHeaders ==
  { NoHeader,
    Bearer(Good),
    Bearer(Encode("HS256", "k1", 1, FarExp, "admin")) }

\* email.toLowerCase().trim()
NormEmail(email) == IF email = " A@x " THEN "a@x" ELSE email

\* `sha256:${salt}:${hash}` of the password
PasswordHash(password) == <<"sha256", password>>

NoSetup ==
  [action |-> "", adminExists |-> FALSE, isPasswordReset |-> FALSE,
   secretGiven |-> Unset, verified |-> "not called", status |-> 0, did |-> "none"]

SetupInit == [tables |-> FALSE, admins |-> << >>, lastReq |-> NoSetup]

\* action === "reset_password" && setup_secret === Deno.env.get("ADMIN_JWT_SECRET")
\* (a missing setup_secret and a missing variable are both undefined)
IsPasswordReset(action, setup_secret, secret) ==
  action = "reset_password" /\ setup_secret = secret

\* The effect of the action on the database and the answer: tables, admins,
\* status, and what was done.
RunSetupAction(action, email, password) ==
  LET db == [tables |-> setup.tables, admins |-> setup.admins]
      e == NormEmail(email)
  IN
  IF action = "init_tables"
    THEN [db |-> [db EXCEPT !.tables = TRUE], status |-> 200, did |-> "init_tables"]
  ELSE IF action = "create_admin"
    THEN IF email = "" \/ password = ""
           THEN [db |-> db, status |-> 400, did |-> "none"]
         ELSE IF ~setup.tables
           THEN [db |-> db, status |-> 500, did |-> "none"]
         ELSE [db |-> [db EXCEPT !.admins = MapSet(@, e, PasswordHash(password))],
               status |-> 200,
               did |-> IF e \in DOMAIN setup.admins THEN "update_admin" ELSE "create_admin"]
  ELSE IF action = "reset_password"
    THEN IF email = "" \/ password = ""
           THEN [db |-> db, status |-> 400, did |-> "none"]
         ELSE IF ~setup.tables
           THEN [db |-> db, status |-> 500, did |-> "none"]
         ELSE IF e \notin DOMAIN setup.admins
           THEN [db |-> db, status |-> 404, did |-> "none"]
         ELSE [db |-> [db EXCEPT !.admins = MapSet(@, e, PasswordHash(password))],
               status |-> 200, did |-> "reset_password"]
  ELSE [db |-> db, status |-> 400, did |-> "none"]

\* One request to the setup function.
SetupRequest(action, email, password, setup_secret, authHeader) ==
  LET adminExists == setup.tables /\ DOMAIN setup.admins # {}
      isPasswordReset == IsPasswordReset(action, setup_secret, jwtSecret)
      mustVerify == adminExists /\ ~isPasswordReset
      isAdmin == verifyAdminToken(authHeader, jwtSecret, now)
      run == RunSetupAction(action, email, password)
      seen == [action |-> action, adminExists |-> adminExists,
               isPasswordReset |-> isPasswordReset, secretGiven |-> setup_secret,
               verified |-> IF ~mustVerify THEN "not called"
                            ELSE IF isAdmin THEN "true" ELSE "false",
               status |-> 0, did |-> "none"]
  IN
    /\ IF mustVerify /\ ~isAdmin
         THEN setup' = [setup EXCEPT !.lastReq = [seen EXCEPT !.status = 401]]
         ELSE setup' = [tables |-> run.db.tables, admins |-> run.db.admins,
                        lastReq |-> [seen EXCEPT !.status = run.status,
                                                 !.did = run.did]]
    /\ UNCHANGED <<now, limiterVars, handlerVars, tg>>

(***************************************************************************)
(* The browser page: loadTelegramScript                                    *)
(***************************************************************************)
MaxCalls == 4
Calls == 1..MaxCalls

\* call[c]: "none" (not made), "loading" (it appended the script and awaits
\* onload / onerror), "waiting" (it polls telegramScriptLoaded), "resolved",
\* "rejected".  scripts: the calls whose script element has not fired yet.
TgInit ==
  [telegramScriptLoaded |-> FALSE, telegramScriptLoading |-> FALSE,
   scripts |-> {}, appended |-> 0, call |-> [c \in Calls |-> "none"]]

\* loadTelegramScript with the test of telegramScriptLoading left out.
loadTelegramScript_noLoadingTest(c) ==
  /\ tg.call[c] = "none"
  /\ IF tg.telegramScriptLoaded
       THEN tg' = [tg EXCEPT !.call[c] = "resolved"]
       ELSE tg' = [tg EXCEPT !.telegramScriptLoading = TRUE,
                             !.scripts = @ \cup {c},
                             !.appended = @ + 1,
                             !.call[c] = "loading"]
  /\ UNCHANGED <<now, limiterVars, handlerVars, setup>>

\* A call of loadTelegramScript().
loadTelegramScript(c) ==
  /\ tg.call[c] = "none"
  /\ IF tg.telegramScriptLoaded
       THEN tg' = [tg EXCEPT !.call[c] = "resolved"]
     ELSE IF tg.telegramScriptLoading
       THEN tg' = [tg EXCEPT !.call[c] = "waiting"]
     ELSE tg' = [tg EXCEPT !.telegramScriptLoading = TRUE,
                           !.scripts = @ \cup {c},
                           !.appended = @ + 1,
                           !.call[c] = "loading"]
  /\ UNCHANGED <<now, limiterVars, handlerVars, setup>>

\* script.onload
ScriptOnload(c) ==
  /\ c \in tg.scripts
  /\ tg' = [tg EXCEPT !.telegramScriptLoaded = TRUE,
                      !.telegramScriptLoading = FALSE,
                      !.scripts = @ \ {c},
                      !.call[c] = "resolved"]
  /\ UNCHANGED <<now, limiterVars, handlerVars, setup>>

\* script.onerror
ScriptOnerror(c) ==
  /\ c \in tg.scripts
  /\ tg' = [tg EXCEPT !.telegramScriptLoading = FALSE,
                      !.scripts = @ \ {c},
                      !.call[c] = "rejected"]
  /\ UNCHANGED <<now, limiterVars, handlerVars, setup>>

\* The 100 ms interval of a waiting call fires and finds the script loaded.
IntervalCheck(c) ==
  /\ tg.call[c] = "waiting"
  /\ tg.telegramScriptLoaded
  /\ tg' = [tg EXCEPT !.call[c] = "resolved"]
  /\ UNCHANGED <<now, limiterVars, handlerVars, setup>>

(***************************************************************************)
(* Specifications                                                          *)
(***************************************************************************)
InitRate ==
  /\ setup = SetupInit
  /\ tg = TgInit
  /\ now = 0
  /\ jwtSecret = "k1"
  /\ req = [r \in ReqIds |-> Idle]
  /\ comments = {}
  /\ rateLimitMap = << >>
  /\ last = NoCall
  /\ windowCalls = [p \in Principals |-> 0]
  /\ hist = [p \in Principals |-> << >>]

NextRate == Tick \/ \E p \in Principals : Call(p)

SpecRate == InitRate /\ [][NextRate]_vars

\* The limiter seen by one principal, with the times of its allowed calls.
NextBurst == TickBurst \/ CallRecorded(1)

SpecBurst == InitRate /\ [][NextBurst]_vars

\* One client at a time against the comments function and the admin check.
InitAuth ==
  /\ setup = SetupInit
  /\ tg = TgInit
  /\ now = 0
  /\ rateLimitMap = << >>
  /\ last = NoCall
  /\ windowCalls = [p \in Principals |-> 0]
  /\ hist = [p \in Principals |-> << >>]
  /\ jwtSecret \in EnvSecrets
  /\ req = [r \in ReqIds |-> Idle]
  /\ comments = {}

NextAuth ==
  \/ Tick
  \/ \E c \in CookieHeaders : Post(1, c)
  \/ VerifyDone(1)
  \/ \E b \in Bodies : BodyRead(1, b)
  \/ InsertDone(1)
  \/ \E h \in AuthHeaders : AdminVerify(1, h)

SpecAuth == InitAuth /\ [][NextAuth]_vars

\* Concurrent POST requests to the comments function.
SomeCookieHeaders ==
  { << >>,
    <<Cookie("tg_auth", Good)>>,
    <<Cookie("tg_auth", SubSeq(Good, 1, 3))>> }

SomeBodies ==
  {b \in Bodies : b.json /\ b.content \in {"hi", " "} /\ (b.seriesId \/ b.content = "hi")}

Init ==
  /\ setup = SetupInit
  /\ tg = TgInit
  /\ now = 0
  /\ rateLimitMap = << >>
  /\ last = NoCall
  /\ windowCalls = [p \in Principals |-> 0]
  /\ hist = [p \in Principals |-> << >>]
  /\ jwtSecret \in {Unset, "k1"}
  /\ req = [r \in ReqIds |-> Idle]
  /\ comments = {}

Next ==
  \/ TickWindow
  \/ \E r \in ReqIds, c \in SomeCookieHeaders : Post(r, c)
  \/ \E r \in ReqIds : VerifyDone(r)
  \/ \E r \in ReqIds, b \in SomeBodies : BodyRead(r, b)
  \/ \E r \in ReqIds : InsertDone(r)

Spec == Init /\ [][Next]_vars

\* The setup function alone.
InitSetup ==
  /\ setup = SetupInit
  /\ tg = TgInit
  /\ now = 0
  /\ rateLimitMap = << >>
  /\ last = NoCall
  /\ windowCalls = [p \in Principals |-> 0]
  /\ hist = [p \in Principals |-> << >>]
  /\ jwtSecret \in EnvSecrets
  /\ req = [r \in ReqIds |-> Idle]
  /\ comments = {}

NextSetup ==
  \E a \in SetupActions, e \in RawEmails, pw \in Passwords,
     ss \in SetupSecrets, h \in SetupHeaders : SetupRequest(a, e, pw, ss, h)

SpecSetup == InitSetup /\ [][NextSetup]_vars

\* The script loader alone.
NextTg ==
  \E c \in Calls :
    \/ loadTelegramScript(c)
    \/ ScriptOnload(c)
    \/ ScriptOnerror(c)
    \/ IntervalCheck(c)

SpecTg == InitRate /\ [][NextTg]_vars

(***************************************************************************)
(* Rate limiter: properties                                                *)
(***************************************************************************)
InWindow(c) == c.prev # Absent /\ c.t <= c.prev.resetAt

\* C1: counted from the call that creates or replaces a principal's entry,
\* the first 5 calls made with now <= resetAt return true and every further
\* one returns false; the entry's count is the number of calls allowed in
\* the window and never exceeds 5.
C1_FivePerWindow ==
  /\ last.p \in Principals =>
       (last.ok <=> windowCalls[last.p] <= MAX_COUNT)
  /\ \A p \in DOMAIN rateLimitMap :
       /\ rateLimitMap[p].count <= MAX_COUNT
       /\ rateLimitMap[p].count = Min(windowCalls[p], MAX_COUNT)

\* The sixth call of a window has been denied.
C1_Witness ==
  /\ last.p \in Principals
  /\ InWindow(last)
  /\ ~last.ok
  /\ windowCalls[last.p] = MAX_COUNT + 1

\* C2: a call that finds no entry, or finds now > resetAt, returns true and
\* leaves the entry {count: 1, resetAt: now + 60000}, whatever the count was.
C2_ExpiredWindowReplaced ==
  (last.p \in Principals /\ ~InWindow(last)) =>
     /\ last.ok
     /\ last.p \in DOMAIN rateLimitMap
     /\ rateLimitMap[last.p] = [count |-> 1, resetAt |-> last.t + WINDOW_MS]

\* A principal at count = 5 called after resetAt and got a fresh window.
C2_Witness ==
  /\ last.p \in Principals
  /\ last.prev.count = MAX_COUNT
  /\ last.t > last.prev.resetAt
  /\ last.ok
  /\ rateLimitMap[last.p].count = 1

\* C3: a call that returns false found an entry with now <= resetAt and
\* count >= 5, and leaves the whole map as it was.
C3_DenyChangesNothing ==
  [][\A p \in Principals :
       (Call(p) /\ ~last'.ok) =>
          /\ p \in DOMAIN rateLimitMap
          /\ now <= rateLimitMap[p].resetAt
          /\ rateLimitMap[p].count >= MAX_COUNT
          /\ rateLimitMap' = rateLimitMap]_vars

\* Principal 2 was denied while principal 1 has an entry too, and time has
\* passed since without either entry moving.
C3_Witness ==
  /\ last.p = 2
  /\ ~last.ok
  /\ now > last.t
  /\ 1 \in DOMAIN rateLimitMap
  /\ rateLimitMap[2] = last.prev

BurstCalls == 2 * MAX_COUNT
Span(s, i, j) == s[j] - s[i]

\* C4 as amended: any 10 allowed calls of one principal span more than
\* 60000 ms (the first call of a window is the one that creates it, 60000 ms
\* before its resetAt), so a burst across a window boundary has at most 9.
C4_TenSpanMoreThanWindow ==
  \A p \in Principals :
    \A i \in 1..Len(hist[p]) :
      (i + BurstCalls - 1 <= Len(hist[p])) =>
         Span(hist[p], i, i + BurstCalls - 1) > WINDOW_MS

\* 9 calls allowed within a short interval: 4 at the end of one window and 5
\* right after it was replaced.
C4_Witness ==
  /\ Len(hist[1]) >= BurstCalls - 1
  /\ Span(hist[1], Len(hist[1]) - (BurstCalls - 2), Len(hist[1])) <= ShortSpan
  /\ rateLimitMap[1].count = MAX_COUNT
  /\ last.ok

\* C4 as claimed: the 10 allowed calls of two consecutive full windows lie
\* within a short interval when the second window is filled right after the
\* first one ended.
C4_Original ==
  \A p \in Principals :
    (/\ Len(hist[p]) >= BurstCalls
     /\ rateLimitMap[p].count = MAX_COUNT
     /\ Span(hist[p], Len(hist[p]) - (BurstCalls - 2), Len(hist[p])) <= ShortSpan)
      => Span(hist[p], Len(hist[p]) - (BurstCalls - 1), Len(hist[p])) <= ShortSpan

(***************************************************************************)
(* Authentication: properties                                              *)
(***************************************************************************)
HeaderSeg(tok) == At(Split(tok), 1)
PayloadSeg(tok) == At(Split(tok), 2)
ThreeSegments(tok) ==
  Len(Split(tok)) = 3 /\ \A i \in 1..3 : Split(tok)[i] # << >>
ExpOf(tok) ==
  IF ParsePayload(PayloadSeg(tok)).threw THEN NoExp
  ELSE ParsePayload(PayloadSeg(tok)).payload.exp
RoleOf(tok) ==
  IF ParsePayload(PayloadSeg(tok)).threw THEN NoRole
  ELSE ParsePayload(PayloadSeg(tok)).payload.role
AlgOf(tok) ==
  IF Len(HeaderSeg(tok)) = 1 /\ HeaderSeg(tok)[1].kind = "hdr"
    THEN HeaderSeg(tok)[1].alg ELSE ""
NoSecret == jwtSecret = Unset \/ jwtSecret = ""
IsPost(r) == req[r].kind = "comments"
IsAdminCheck(r) == req[r].kind \in {NoHeader.scheme, "Bearer ", "Basic "}
Rejected(r) == req[r].pc = "done" /\ req[r].status = 401
Accepted(r) ==
  \/ req[r].pc \in {"readingBody", "inserting"}
  \/ req[r].pc = "done" /\ req[r].status # 401

\* C5: with ADMIN_JWT_SECRET unset or empty, or with no token presented, a
\* POST is answered 401 "Unauthorized" at once, verifyJWT never started, and
\* verifyAdminToken returns false; nothing is inserted or counted.
C5_FailsClosed ==
  /\ \A r \in ReqIds :
       /\ (IsPost(r) /\ (NoSecret \/ req[r].tok = << >>)) =>
             /\ Rejected(r)
             /\ req[r].error = "Unauthorized"
             /\ req[r].user = 0
       /\ (IsAdminCheck(r) /\ (NoSecret \/ req[r].kind # "Bearer " \/ req[r].tok = << >>)) =>
             ~req[r].isAdmin
  /\ NoSecret => (comments = {} /\ rateLimitMap = << >>)

\* A token signed with "k1" was presented while no secret is configured.
C5_Witness ==
  /\ jwtSecret = Unset
  /\ IsPost(1)
  /\ req[1].tok = Good
  /\ Rejected(1)

\* C6 as claimed: a token whose exp is below the current Unix time in
\* seconds when verification completes is rejected by verifyJWT and by
\* verifyAdminToken, for every integer exp, 0 included.
C6_Original ==
  [][/\ (VerifyDone(1) /\ ExpOf(req[1].tok) # NoExp
           /\ ExpOf(req[1].tok) < now \div 1000) => Rejected(1)'
     /\ \A h \in AuthHeaders :
          (AdminVerify(1, h) /\ ExpOf(h.rest) # NoExp
             /\ ExpOf(h.rest) < now \div 1000) => ~req'[1].isAdmin]_vars

\* C7 as claimed: a token that does not split on "." into exactly three
\* non-empty segments is rejected by verifyJWT and by verifyAdminToken.
C7_Original ==
  \A r \in ReqIds :
    /\ (IsPost(r) /\ ~ThreeSegments(req[r].tok)) => ~Accepted(r)
    /\ (IsAdminCheck(r) /\ ~ThreeSegments(req[r].tok)) => ~req[r].isAdmin

\* C8: verifyAdminToken returns true only for a token whose role is
\* "admin"; a token with another role or none that verifyJWT accepts under
\* the same secret is refused by verifyAdminToken.
C8_AdminNeedsRole ==
  \A r \in ReqIds :
    (IsAdminCheck(r) /\ req[r].isAdmin) =>
       /\ RoleOf(req[r].tok) = "admin"
       /\ req[r].kind = "Bearer "

\* The admin check refused a token with role "user" that verifyJWT accepts
\* under the configured secret.
C8_Witness ==
  /\ req[1].kind = "Bearer "
  /\ req[1].pc = "done"
  /\ RoleOf(req[1].tok) = "user"
  /\ ~req[1].isAdmin
  /\ verifyJWT(req[1].tok, jwtSecret, now).ok

\* C9 as claimed: two POST requests that both fail authentication get the
\* same status and the same error body, whatever the reason.
C9_Original ==
  \A r1, r2 \in ReqIds :
    (IsPost(r1) /\ IsPost(r2) /\ Rejected(r1) /\ Rejected(r2)) =>
       req[r1].error = req[r2].error

\* C10 as claimed: a token whose header declares an algorithm other than
\* HS256 is rejected by verifyJWT and by verifyAdminToken, whatever its
\* signature segment holds.
C10_Original ==
  \A r \in ReqIds :
    /\ (IsPost(r) /\ AlgOf(req[r].tok) \in Algs \ {"HS256"}) => ~Accepted(r)
    /\ (IsAdminCheck(r) /\ AlgOf(req[r].tok) \in Algs \ {"HS256"}) => ~req[r].isAdmin

\* The signature segment decodes to the HMAC-SHA-256 tag of
\* headerSeg "." payloadSeg under secret.
SignatureSeg(tok) == At(Split(tok), 3)
TagMatches(tok, secret) ==
  /\ ~base64UrlDecode(SignatureSeg(tok)).threw
  /\ base64UrlDecode(SignatureSeg(tok)).bytes
       = Hmac(secret, HeaderSeg(tok), PayloadSeg(tok))
PayloadPieces == {Pay(p, e, ro) : p \in Principals, e \in Exps, ro \in Roles}
WithPayload(tok, piece) ==
  HeaderSeg(tok) \o <<Dot, piece, Dot>> \o SignatureSeg(tok)

\* C11: a token gets past the signature check exactly when its decoded
\* signature segment equals the HMAC-SHA-256 tag of headerSeg "." payloadSeg
\* under the secret; a token accepted under the secret is refused under any
\* other secret, and refused once its payload segment is replaced.
C11_SignatureDecides ==
  \A r \in ReqIds :
    /\ (IsPost(r) /\ Accepted(r)) =>
         /\ TagMatches(req[r].tok, jwtSecret)
         /\ \A s2 \in EnvSecrets \ {jwtSecret} :
              ~verifyJWT(req[r].tok, s2, now).ok
         /\ \A piece \in PayloadPieces \ {PayloadSeg(req[r].tok)[1]} :
              ~verifyJWT(WithPayload(req[r].tok, piece), jwtSecret, now).ok
    /\ (IsPost(r) /\ req[r].pc # "verifying" /\ ~NoSecret
          /\ ThreeSegments(req[r].tok) /\ TagMatches(req[r].tok, jwtSecret)
          /\ ExpOf(req[r].tok) \in {NoExp, FarExp}) => Accepted(r)
    /\ (IsAdminCheck(r) /\ req[r].isAdmin) => TagMatches(req[r].tok, jwtSecret)

\* A token signed with "k1" was refused under "k2", and the same token
\* verifies under "k1".
C11_Witness ==
  /\ jwtSecret = "k2"
  /\ IsPost(1)
  /\ req[1].tok = Good
  /\ Rejected(1)
  /\ req[1].error = "Invalid or expired token"
  /\ verifyJWT(Good, "k1", now).ok

(***************************************************************************)
(* Concurrent requests: properties                                         *)
(***************************************************************************)
\* The requests of principal p admitted by the limiter in p's current window.
AdmittedNow(p) ==
  {r \in ReqIds : /\ req[r].user = p
                  /\ req[r].win # 0
                  /\ req[r].win = rateLimitMap[p].resetAt}

\* C12: under every interleaving of POST requests no rate-limit update is
\* lost: a principal's count is the number of calls allowed in its current
\* window, it is at least the number of requests admitted in that window
\* that are still held, and it never exceeds 5.
C12_NoLostUpdate ==
  \A p \in DOMAIN rateLimitMap :
    /\ Cardinality(AdmittedNow(p)) <= rateLimitMap[p].count
    /\ rateLimitMap[p].count = Min(windowCalls[p], MAX_COUNT)
    /\ rateLimitMap[p].count <= MAX_COUNT

\* Two requests of principal 1 are in flight together, both admitted in the
\* same window, and both are counted.
C12_Witness ==
  /\ req[1].pc = "readingBody"
  /\ req[2].pc = "readingBody"
  /\ req[1].user = 1
  /\ req[2].user = 1
  /\ req[1].win = req[2].win
  /\ rateLimitMap[1].count = 2

\* The request in slot r is past both gates of the POST handler.
PastGates(r) ==
  /\ IsPost(r)
  /\ \/ req[r].pc \in {"readingBody", "inserting"}
     \/ req[r].status \in {201, 400, 500}

\* A step of slot r from one position of the handler to another.
Moves(r, from, to) == req[r].pc = from /\ req'[r].pc = to

\* C13: a request is past the gates only with a principal that verifyJWT
\* returned for its own token and a window in which checkRateLimit admitted
\* it; it leaves verification for the body only in the step in which both
\* verifyJWT and checkRateLimit succeed for it; the comments table changes
\* only in the step that completes the INSERT of such a request; a request
\* answered 401 or 429 is finished and inserts nothing.
C13_InsertAfterGates ==
  /\ [](\A r \in ReqIds :
          /\ PastGates(r) =>
               /\ req[r].user \in Principals
               /\ req[r].win # 0
               /\ \E t \in Instants :
                    /\ t <= now
                    /\ verifyJWT(req[r].tok, jwtSecret, t).ok
                    /\ verifyJWT(req[r].tok, jwtSecret, t).telegram_id = req[r].user
          /\ (IsPost(r) /\ req[r].status \in {401, 429}) =>
               /\ req[r].pc = "done"
               /\ req[r].win = 0)
  /\ [][/\ \A r \in ReqIds :
             /\ (IsPost(r) /\ req'[r].pc = "readingBody" /\ req[r].pc # "readingBody") =>
                  /\ req[r].pc = "verifying"
                  /\ verifyJWT(req[r].tok, jwtSecret, now).ok
                  /\ checkRateLimit(rateLimitMap,
                                    verifyJWT(req[r].tok, jwtSecret, now).telegram_id,
                                    now).ok
             /\ (req'[r].pc = "inserting" /\ req[r].pc # "inserting") =>
                  req[r].pc = "readingBody"
             /\ (req'[r].status \in {401, 429} /\ req[r].pc # "done") =>
                  comments' = comments
        /\ comments' # comments =>
             \E r \in ReqIds :
               /\ Moves(r, "inserting", "done")
               /\ PastGates(r)
               /\ req'[r].status = 201
               /\ comments' = comments \cup {req[r].user}]_vars

\* One request of principal 1 has inserted its comment and another one of
\* the same principal was denied by the rate limiter.
C13_Witness ==
  /\ req[1].status = 201
  /\ req[1].user = 1
  /\ req[2].status = 429
  /\ req[2].user = 1
  /\ comments = {1}

(***************************************************************************)
(* Independence of principals                                              *)
(***************************************************************************)
\* The map with the entries of every principal but p removed.
OnlyEntry(m, p) == [k \in DOMAIN m \cap {p} |-> m[k]]

\* Entries another principal may have: a fresh and a full one, of the first
\* window and of one still open at every instant.
OtherEntries ==
  [count : {1, MAX_COUNT}, resetAt : {WINDOW_MS, FarExp + WINDOW_MS}]

\* C14: a checkRateLimit call for principal p (a step at one instant whose
\* latest call is for p) leaves the entry of every other
\* principal as it was, and its result and p's new entry are those computed
\* from p's entry and the time alone, whatever the entry of another
\* principal is.
C14_PrincipalsIndependent ==
  [][\A p \in Principals :
       (now' = now /\ last'.p = p) =>
         LET own == checkRateLimit(OnlyEntry(rateLimitMap, p), p, now) IN
           /\ \A q \in Principals \ {p} :
                /\ (q \in DOMAIN rateLimitMap') = (q \in DOMAIN rateLimitMap)
                /\ MapGet(rateLimitMap', q) = MapGet(rateLimitMap, q)
           /\ last'.ok = own.ok
           /\ MapGet(rateLimitMap', p) = MapGet(own.map, p)
           /\ \A q \in Principals \ {p} : \A e \in OtherEntries :
                LET r == checkRateLimit(MapSet(OnlyEntry(rateLimitMap, p), q, e), p, now)
                IN /\ r.ok = own.ok
                   /\ MapGet(r.map, p) = MapGet(own.map, p)
                   /\ MapGet(r.map, q) = e]_vars

\* Principal 1 has just been denied in a full window while principal 2 has
\* an entry of its own with two calls counted.
C14_Witness ==
  /\ last.p = 1
  /\ ~last.ok
  /\ rateLimitMap[1].count = MAX_COUNT
  /\ 2 \in DOMAIN rateLimitMap
  /\ rateLimitMap[2].count = 2
  /\ rateLimitMap[2].resetAt # rateLimitMap[1].resetAt

(***************************************************************************)
(* The setup function: properties                                          *)
(***************************************************************************)
\* ADMIN_JWT_SECRET is configured.
Configured == jwtSecret # Unset /\ jwtSecret # ""

\* C15: while an admin exists the setup handler executes an action only for
\* a request that verifyAdminToken accepted, or for a reset_password whose
\* setup_secret equals the configured ADMIN_JWT_SECRET; every other request
\* is answered 401 and executes nothing; with ADMIN_JWT_SECRET not configured
\* no request executes an action while an admin exists.
C15_Original ==
  LET q == setup.lastReq IN
    q.adminExists =>
      /\ q.did # "none" =>
           \/ q.verified = "true"
           \/ /\ q.action = "reset_password"
              /\ Configured
              /\ q.secretGiven = jwtSecret
      /\ ~Configured => q.did = "none"
      /\ (q.verified # "true" /\ ~(q.action = "reset_password" /\ q.secretGiven = jwtSecret))
           => q.status = 401

(***************************************************************************)
(* Rate limiter: any interval of one window length                         *)
(***************************************************************************)
\* C16: no interval of 60000 ms holds more than 10 allowed calls of one
\* principal: any 11 allowed calls of a principal, taken in the order they
\* were made, span more than 60000 ms.
C16_AtMostTenPerInterval ==
  \A p \in Principals :
    \A i \in 1..Len(hist[p]) :
      (i + BurstCalls <= Len(hist[p])) =>
         Span(hist[p], i, i + BurstCalls) > WINDOW_MS

\* Three windows were opened and 11 allowed calls are on record, the latest
\* 9 of them within one interval of 60000 ms.
C16_Witness ==
  /\ Len(hist[1]) = BurstCalls + 1
  /\ Span(hist[1], 3, BurstCalls + 1) <= WINDOW_MS
  /\ hist[1][1] + 2 * WINDOW_MS < hist[1][BurstCalls + 1]

(***************************************************************************)
(* The comments function: the quota is charged before validation           *)
(***************************************************************************)
\* The window of principal p is full at the present time.
WindowFull(p) ==
  /\ p \in DOMAIN rateLimitMap
  /\ now <= rateLimitMap[p].resetAt
  /\ rateLimitMap[p].count = MAX_COUNT

\* C17: a request answered 400 was charged: it was admitted by a window of
\* its principal and the step that rejects it leaves the map as it is; a
\* verified request that finds the principal's window full, however the
\* requests counted in it ended, is answered 429 and inserts nothing; a step
\* that answers 401 leaves the map unchanged.
C17_ChargedBeforeValidation ==
  /\ [](\A r \in ReqIds :
          (IsPost(r) /\ req[r].status = 400) =>
             /\ req[r].win # 0
             /\ req[r].user \in DOMAIN rateLimitMap
             /\ rateLimitMap[req[r].user].resetAt >= req[r].win
             /\ (rateLimitMap[req[r].user].resetAt = req[r].win =>
                   rateLimitMap[req[r].user].count >= 1))
  /\ [][\A r \in ReqIds :
          /\ (Moves(r, "readingBody", "done") /\ req'[r].status = 400) =>
               /\ rateLimitMap' = rateLimitMap
               /\ comments' = comments
          /\ (req'[r] # req[r] /\ req'[r].kind = "comments" /\ req'[r].status = 401) =>
               rateLimitMap' = rateLimitMap
          /\ (/\ req[r].pc = "verifying"
              /\ req'[r].pc # "verifying"
              /\ verifyJWT(req[r].tok, jwtSecret, now).ok
              /\ WindowFull(verifyJWT(req[r].tok, jwtSecret, now).telegram_id)) =>
               /\ req'[r].status = 429
               /\ req'[r].pc = "done"
               /\ rateLimitMap' = rateLimitMap
               /\ comments' = comments]_vars

\* No comment was ever inserted, so each of the 5 requests counted in the
\* window of principal 1 was rejected at validation, the latest of them is
\* still on record with its 400, and a further request got 429.
C17_Witness ==
  /\ comments = {}
  /\ req[1].status = 400
  /\ req[1].user = 1
  /\ req[2].status = 429
  /\ req[2].user = 1
  /\ WindowFull(1)
  /\ req[1].win = rateLimitMap[1].resetAt
  /\ windowCalls[1] = MAX_COUNT + 1

(***************************************************************************)
(* The script loader: properties                                           *)
(***************************************************************************)
\* C18: at most one script load is in flight, and telegramScriptLoading says
\* whether one is; no script element is appended once telegramScriptLoaded
\* is true; a waiting call stays waiting until it is resolved, and it is
\* resolved only with telegramScriptLoaded true, never rejected;
\* telegramScriptLoaded becomes true only when a load in flight succeeds; a
\* failing load rejects the call that started it and no other call.
C18_OneLoadInFlight ==
  /\ [](/\ Cardinality(tg.scripts) <= 1
        /\ tg.telegramScriptLoading <=> (tg.scripts # {})
        /\ \A c \in tg.scripts : tg.call[c] = "loading"
        /\ \A c \in Calls : tg.call[c] = "loading" => c \in tg.scripts)
  /\ [][/\ tg.telegramScriptLoaded => tg'.appended = tg.appended
        /\ tg'.appended > tg.appended => tg.scripts = {}
        /\ (~tg.telegramScriptLoaded /\ tg'.telegramScriptLoaded) =>
             \E c \in tg.scripts : tg'.call[c] = "resolved"
        /\ \A c \in Calls :
             /\ tg.call[c] = "waiting" =>
                  /\ tg'.call[c] \in {"waiting", "resolved"}
                  /\ tg'.call[c] = "resolved" => tg.telegramScriptLoaded
             /\ (tg.call[c] = "none" /\ tg.telegramScriptLoading) =>
                  tg'.call[c] \in {"none", "waiting"}
             /\ (tg.call[c] # "rejected" /\ tg'.call[c] = "rejected") =>
                  /\ c \in tg.scripts
                  /\ tg'.scripts = {}
                  /\ ~tg'.telegramScriptLoading
                  /\ tg'.telegramScriptLoaded = tg.telegramScriptLoaded
                  /\ \A d \in Calls \ {c} : tg'.call[d] = tg.call[d]]_vars

\* The only load, started by call 1, failed and call 1 was rejected; call 2,
\* which arrived while that load was in flight, is still waiting with no
\* load in flight.
C18_Witness ==
  /\ tg.call[1] = "rejected"
  /\ tg.call[2] = "waiting"
  /\ tg.scripts = {}
  /\ ~tg.telegramScriptLoading
  /\ ~tg.telegramScriptLoaded
  /\ tg.appended = 1

====
